---- MODULE Spec2Model ----
(***************************************************************************)
(* Model of the fetch package of dataflowkit: the Request helpers, the     *)
(* Direct strategy (BaseFetcher) and the Browser strategy (ChromeFetcher). *)
(* Strings are sequences of one-character strings.                         *)
(***************************************************************************)
EXTENDS Integers, Sequences, FiniteSets, TLC

VARIABLES
    nurl,       \* getURL: the string being normalized
    nprev,      \* getURL: the string before the last normalization
    ncount,     \* getURL: how many times getURL has been applied
    fdIn,       \* parseFormData: the FormData string
    fdBody,     \* parseFormData + Encode: the body sent, or that the call panicked
    jar,        \* the jar field of each fetcher (bf.jar, f.jar)
    clientJar,  \* the Jar of each fetcher's http client
    base,       \* the BaseFetcher.Fetch call in progress
    cdpClient,  \* ChromeFetcher.cdpClient: the connection the client speaks over
    calls,      \* the ChromeFetcher.Fetch calls, one record per call
    browser,    \* the remote browser: events emitted per connection
    crashed,    \* a goroutine panicked: the process is gone
    proxy,      \* the PROXY setting viper.GetString reads
    made        \* newFetcher: what each call so far gave its caller

pureVars   == <<nurl, nprev, ncount, fdIn, fdBody>>
jarVars    == <<jar, clientJar>>
baseVars   == <<base>>
chromeVars == <<cdpClient, calls, browser>>
selVars    == <<proxy, made>>
vars == <<nurl, nprev, ncount, fdIn, fdBody, jar, clientJar, base,
          cdpClient, calls, browser, crashed, proxy, made>>

Nil == "nil"

-----------------------------------------------------------------------------
(* Bounds *)

MaxURLLen  == 4   \* longest string given to getURL
MaxFormLen == 5   \* longest FormData given to parseFormData
MaxApply   == 2   \* how many times getURL is applied in a row

-----------------------------------------------------------------------------
(* Strings *)

RECURSIVE StringsUpTo(_, _)
StringsUpTo(alphabet, n) ==
    IF n = 0 THEN {<<>>}
    ELSE LET shorter == StringsUpTo(alphabet, n - 1)
         IN  shorter \cup {Append(s, ch) : s \in {t \in shorter : Len(t) = n - 1},
                                            ch \in alphabet}

Whitespace == {" "}

Drop(s, n) == SubSeq(s, n + 1, Len(s))
Take(s, n) == SubSeq(s, 1, n)
HasPrefix(s, p) == Len(s) >= Len(p) /\ Take(s, Len(p)) = p

\* index of the first occurrence of character ch in s, 0 when there is none
IndexOf(s, ch) ==
    IF \E i \in 1..Len(s) : s[i] = ch
    THEN CHOOSE i \in 1..Len(s) : s[i] = ch /\ \A j \in 1..(i - 1) : s[j] # ch
    ELSE 0

LastIndexOf(s, ch) ==
    IF \E i \in 1..Len(s) : s[i] = ch
    THEN CHOOSE i \in 1..Len(s) : s[i] = ch /\ \A j \in (i + 1)..Len(s) : s[j] # ch
    ELSE 0

\* strings.TrimSpace
TrimSpace(s) ==
    LET keep == {i \in 1..Len(s) : s[i] \notin Whitespace}
    IN  IF keep = {} THEN <<>>
        ELSE LET lo == CHOOSE i \in keep : \A j \in keep : i <= j
                 hi == CHOOSE i \in keep : \A j \in keep : i >= j
             IN  SubSeq(s, lo, hi)

\* strings.TrimRight(s, cutset) for a one-character cutset
TrimRight(s, ch) ==
    LET keep == {i \in 1..Len(s) : s[i] # ch}
    IN  IF keep = {} THEN <<>>
        ELSE Take(s, CHOOSE i \in keep : \A j \in keep : i >= j)

\* strings.Split(s, sep) for a one-character separator
RECURSIVE Split(_, _)
Split(s, sep) ==
    LET i == IndexOf(s, sep)
    IN  IF i = 0 THEN <<s>>
        ELSE <<Take(s, i - 1)>> \o Split(Drop(s, i), sep)

RECURSIVE Join(_, _)
Join(parts, sep) ==
    IF Len(parts) = 0 THEN <<>>
    ELSE IF Len(parts) = 1 THEN parts[1]
    ELSE parts[1] \o sep \o Join(Tail(parts), sep)

-----------------------------------------------------------------------------
(* Request.getURL *)

getURL(url) == TrimRight(TrimSpace(url), "/")

-----------------------------------------------------------------------------
(* net/url as the fetchers call it, over the characters of URLAlphabet:    *)
(* "a" a letter, ":" "/" and " ".                                          *)

URLAlphabet == {"a", ":", "/", " "}
Letters == {"a", "b"}

\* getscheme: [ok, scheme, rest]
GetScheme(s) ==
    LET stop == {i \in 1..Len(s) : s[i] \notin Letters}
    IN  IF stop = {} THEN [ok |-> TRUE, scheme |-> <<>>, rest |-> s]
        ELSE LET i == CHOOSE k \in stop : \A j \in stop : k <= j
             IN  IF s[i] = ":"
                 THEN IF i = 1
                      THEN [ok |-> FALSE, scheme |-> <<>>, rest |-> s]
                      ELSE [ok |-> TRUE, scheme |-> Take(s, i - 1), rest |-> Drop(s, i)]
                 ELSE [ok |-> TRUE, scheme |-> <<>>, rest |-> s]

\* parseHost: no space in a host, and a port (after the last colon) is digits only
ValidHost(host) ==
    /\ \A i \in 1..Len(host) : host[i] \notin Whitespace
    /\ LastIndexOf(host, ":") \in {0, Len(host)}

\* the authority of rest, which starts with "//"
Authority(rest) ==
    LET r == Drop(rest, 2)
        i == IndexOf(r, "/")
    IN  IF i = 0 THEN r ELSE Take(r, i - 1)

\* url.parse(s, viaRequest) succeeds
URLParses(s, viaRequest) ==
    LET g == GetScheme(s)
        first == IF IndexOf(g.rest, "/") = 0 THEN g.rest
                 ELSE Take(g.rest, IndexOf(g.rest, "/") - 1)
    IN  /\ ~(viaRequest /\ s = <<>>)
        /\ g.ok
        /\ IF ~HasPrefix(g.rest, <<"/">>)
           THEN IF g.scheme # <<>> THEN TRUE                \* opaque
                ELSE /\ ~viaRequest                          \* invalid URI for request
                     /\ IndexOf(first, ":") = 0              \* colon in first segment
           ELSE IF /\ (g.scheme # <<>> \/ (~viaRequest /\ ~HasPrefix(g.rest, <<"/", "/", "/">>)))
                   /\ HasPrefix(g.rest, <<"/", "/">>)
                THEN ValidHost(Authority(g.rest))
                ELSE TRUE

\* url.ParseRequestURI returns no error
ParseRequestURI(s) == URLParses(s, TRUE)

\* url.Parse returns no error
Parse(s) == URLParses(s, FALSE)

\* the scheme and host the transport needs
HasSchemeAndHost(s) ==
    LET g == GetScheme(s)
    IN  /\ g.ok /\ g.scheme # <<>>
        /\ HasPrefix(g.rest, <<"/", "/">>)
        /\ Authority(g.rest) # <<>>

-----------------------------------------------------------------------------
(* parseFormData and url.Values.Encode, over the characters of FormAlphabet *)

FormAlphabet == {"a", "b", "=", "&", "/"}

\* byte values, for sort.Strings
Byte(ch) ==
    CASE ch = "%" -> 37 [] ch = "&" -> 38 [] ch = "/" -> 47 [] ch = "2" -> 50
      [] ch = ":" -> 58 [] ch = "=" -> 61 [] ch = "F" -> 70
      [] ch = "a" -> 97 [] ch = "b" -> 98 [] OTHER -> 32

RECURSIVE StrLess(_, _)
StrLess(s, t) ==
    IF Len(t) = 0 THEN FALSE
    ELSE IF Len(s) = 0 THEN TRUE
    ELSE IF s[1] # t[1] THEN Byte(s[1]) < Byte(t[1])
    ELSE StrLess(Tail(s), Tail(t))

\* kv[1] of line 209 is out of range
parseFormDataPanics(fd) ==
    \E i \in 1..Len(Split(fd, "&")) : Len(Split(Split(fd, "&")[i], "=")) < 2

\* url.Values.Add
ValuesAdd(m, k, v) ==
    IF k \in DOMAIN m THEN [m EXCEPT ![k] = Append(@, v)]
    ELSE [x \in DOMAIN m \cup {k} |-> IF x = k THEN <<v>> ELSE m[x]]

RECURSIVE AddPairs(_, _)
AddPairs(m, pairs) ==
    IF Len(pairs) = 0 THEN m
    ELSE LET kv == Split(pairs[1], "=")
         IN  AddPairs(ValuesAdd(m, kv[1], kv[2]), Tail(pairs))

\* url.Values as a function from the keys present to their values in order
parseFormData(fd) == AddPairs([x \in {} |-> <<>>], Split(fd, "&"))

\* url.QueryEscape
RECURSIVE QueryEscape(_)
QueryEscape(s) ==
    IF Len(s) = 0 THEN <<>>
    ELSE (CASE s[1] = "/" -> <<"%", "2", "F">>
            [] s[1] = "=" -> <<"%", "3", "D">>
            [] s[1] = "&" -> <<"%", "2", "6">>
            [] s[1] = " " -> <<"+">>
            [] OTHER -> <<s[1]>>) \o QueryEscape(Tail(s))

\* sort.Strings of the keys of a url.Values
RECURSIVE SortStrings_desc(_)
SortStrings_desc(S) ==
    IF S = {} THEN <<>>
    ELSE LET greatest == CHOOSE k \in S : \A j \in S \ {k} : StrLess(j, k)
         IN  <<greatest>> \o SortStrings_desc(S \ {greatest})

RECURSIVE SortStrings(_)
SortStrings(S) ==
    IF S = {} THEN <<>>
    ELSE LET least == CHOOSE k \in S : \A j \in S \ {k} : StrLess(k, j)
         IN  <<least>> \o SortStrings(S \ {least})

RECURSIVE EncodeKey(_, _)
EncodeKey(k, vs) ==
    IF Len(vs) = 0 THEN <<>>
    ELSE <<QueryEscape(k) \o <<"=">> \o QueryEscape(vs[1])>> \o EncodeKey(k, Tail(vs))

RECURSIVE EncodeAll(_, _)
EncodeAll(m, keys) ==
    IF Len(keys) = 0 THEN <<>>
    ELSE EncodeKey(keys[1], m[keys[1]]) \o EncodeAll(m, Tail(keys))

\* parseFormData(fd).Encode()
Encode(fd) ==
    LET m == parseFormData(fd)
    IN  Join(EncodeAll(m, SortStrings(DOMAIN m)), <<"&">>)

-----------------------------------------------------------------------------
(* Requests *)

NoRequest == [URL |-> <<>>, Method |-> "", FormData |-> <<>>, InfiniteScroll |-> FALSE]

FetchURLs ==
    { <<"a", ":", "/", "/", "a">>,              \* a://a
      <<"a", ":", "/", "/", "a", "/">>,         \* a://a/
      <<" ", "a", ":", "/", "/", "a">>,         \* leading whitespace
      <<"a", ":", "/", "/", "a", " ", "/">>,    \* whitespace before the trailing slash
      <<"/", "a">>,                             \* a path only
      <<"a">> }                                 \* no scheme, no path

FetchMethods == {"GET", "PUT", ""}

FetchForms ==
    { <<>>,
      <<"a", "=", "b">>,
      <<"b", "=", "&", "a", "=", "/">>,
      <<"a", "=", "b", "=", "a">>,
      <<"a">> }

Requests ==
    [URL : FetchURLs, Method : FetchMethods, FormData : FetchForms,
     InfiniteScroll : BOOLEAN]

NoResult == [stream |-> Nil, err |-> Nil]
Failure(kind) == [stream |-> Nil, err |-> kind]
Success(content) == [stream |-> content, err |-> Nil]

Fetchers == {"Base", "Chrome"}

-----------------------------------------------------------------------------
(* BaseFetcher *)

NoOutbound ==
    [method |-> "", url |-> <<>>, hasBody |-> FALSE, body |-> <<>>,
     contentType |-> Nil, contentLength |-> -1]

BaseIdle ==
    [pc |-> "idle", req |-> NoRequest, out |-> NoOutbound, status |-> 0,
     result |-> NoResult]

Statuses == {200, 201, 400, 401, 403, 404, 407, 418, 500, 502, 503, 504}

\* http.NewRequest: an empty method means GET
NewRequestMethod(method) == IF method = "" THEN "GET" ELSE method

\* lines 149-163: the request built for r
OutboundFor_rawLength(r) ==
    IF r.FormData = <<>>
    THEN [NoOutbound EXCEPT !.method = NewRequestMethod(r.Method), !.url = r.URL]
    ELSE [method |-> NewRequestMethod("POST"), url |-> r.URL, hasBody |-> TRUE,
          body |-> Encode(r.FormData),
          contentType |-> "application/x-www-form-urlencoded",
          contentLength |-> Len(r.FormData)]

OutboundFor(r) ==
    IF r.FormData = <<>>
    THEN [NoOutbound EXCEPT !.method = NewRequestMethod(r.Method), !.url = r.URL]
    ELSE [method |-> NewRequestMethod("POST"), url |-> r.URL, hasBody |-> TRUE,
          body |-> Encode(r.FormData),
          contentType |-> "application/x-www-form-urlencoded",
          contentLength |-> Len(Encode(r.FormData))]

\* lines 169-191: the outcome for a response status
StatusOutcome_swapped(status) ==
    CASE status = 200 -> Success("body")
      [] status = 404 -> Failure("NotFound")
      [] status = 403 -> Failure("Forbidden")
      [] status = 400 -> Failure("BadRequest")
      [] status = 401 -> Failure("Unauthorized")
      [] status = 407 -> Failure("ProxyAuthenticationRequired")
      [] status = 500 -> Failure("InternalServerError")
      [] status = 502 -> Failure("GatewayTimeout")
      [] status = 504 -> Failure("BadGateway")
      [] OTHER -> Failure("UnknownError")

StatusOutcome(status) ==
    CASE status = 200 -> Success("body")
      [] status = 404 -> Failure("NotFound")
      [] status = 403 -> Failure("Forbidden")
      [] status = 400 -> Failure("BadRequest")
      [] status = 401 -> Failure("Unauthorized")
      [] status = 407 -> Failure("ProxyAuthenticationRequired")
      [] status = 500 -> Failure("InternalServerError")
      [] status = 502 -> Failure("BadGateway")
      [] status = 504 -> Failure("GatewayTimeout")
      [] OTHER -> Failure("UnknownError")

\* no Fetch call is running on any fetcher
Quiet ==
    /\ ~crashed
    /\ base.pc = "idle"
    /\ \A c \in DOMAIN calls : calls[c].pc = "idle"

\* BaseFetcher.Fetch up to the request being built (lines 126-163)
BaseFetch(r) ==
    /\ ~crashed
    /\ base.pc = "idle"
    /\ LET valid == ParseRequestURI(getURL(r.URL))
       IN
       /\ clientJar' = IF valid /\ jar["Base"] # Nil
                       THEN [clientJar EXCEPT !["Base"] = jar["Base"]]
                       ELSE clientJar
       /\ base' =
            IF ~valid
            THEN [BaseIdle EXCEPT !.pc = "done", !.req = r,
                                  !.result = Failure("BadRequest")]
            ELSE IF r.FormData # <<>> /\ parseFormDataPanics(r.FormData)
            THEN [BaseIdle EXCEPT !.pc = "panicked", !.req = r]
            ELSE IF ~Parse(r.URL)
            THEN [BaseIdle EXCEPT !.pc = "done", !.req = r,
                                  !.result = Failure("NewRequestError")]
            ELSE [BaseIdle EXCEPT !.pc = "built", !.req = r, !.out = OutboundFor(r)]
    /\ UNCHANGED <<pureVars, selVars, jar, chromeVars, crashed>>

\* bf.client.Do fails (line 165-168)
BaseDoFails ==
    /\ ~crashed
    /\ base.pc = "built"
    /\ base' = [base EXCEPT !.pc = "done", !.result = Failure("BadRequest")]
    /\ UNCHANGED <<pureVars, selVars, jarVars, chromeVars, crashed>>

\* bf.client.Do returns a response with some status (lines 165-191, 128-131)
BaseDoResponds(status) ==
    /\ ~crashed
    /\ base.pc = "built"
    /\ HasSchemeAndHost(base.out.url)
    /\ base' = [base EXCEPT !.pc = "done", !.status = status,
                            !.result = StatusOutcome(status)]
    /\ UNCHANGED <<pureVars, selVars, jarVars, chromeVars, crashed>>

\* the caller takes the result; the fetcher is free for the next call
BaseReturned ==
    /\ ~crashed
    /\ base.pc = "done"
    /\ base' = BaseIdle
    /\ UNCHANGED <<pureVars, selVars, jarVars, chromeVars, crashed>>

-----------------------------------------------------------------------------
(* ChromeFetcher *)

Calls == {1, 2}

Domains == {"DOM", "Network", "Page", "Runtime"}

CallIdle ==
    [pc |-> "idle", req |-> NoRequest, result |-> NoResult,
     ctx |-> "none",          \* ctx of line 247: none, live, canceled
     conn |-> "none",         \* conn of line 256: none, open, closed
     watcher |-> "none",      \* the goroutine of lines 268-275: none, waiting, exited
     act |-> [d \in Domains |-> "idle"],   \* the goroutines of runBatch
     egErr |-> Nil,           \* the first error the errgroup has recorded
     navCtx |-> "none",       \* ctx of line 352: none, live, deadline, canceled
     page |-> 0,              \* the connection of navigate's pageClient
     listener |-> "none",     \* domContentEventFired: none, open, closed
     loaded |-> FALSE,        \* a DOMContentEventFired event waits in the listener
     navErr |-> Nil,          \* what navigate returned
     icpt |-> "none",         \* the goroutine of lines 374-388
     icptConn |-> 0,          \* the connection its listener is registered on
     icptEvent |-> FALSE,     \* a RequestIntercepted event waits in its listener
     scriptErr |-> Nil,       \* the step of runJSFromFile that failed
     js |-> 0,                \* the connection of runJSFromFile's copy of f
     via |-> {},              \* the connections its protocol calls were made on
     ops |-> {}]              \* the discovery, dial and protocol calls issued so far

BrowserIdle == [navigated |-> FALSE, domFired |-> FALSE, intercepted |-> FALSE]

\* the connection k is usable
ConnOpen(k) == k \in Calls /\ calls[k].conn = "open"

\* the deferred calls of Fetch: cancel() (line 248) and conn.Close() (line 261)
Deferred_leak(call) == [call EXCEPT !.ctx = "canceled"]

Deferred_noCancel(call) ==
    [call EXCEPT !.conn = IF @ = "open" THEN "closed" ELSE @]

Deferred(call) ==
    [call EXCEPT !.ctx = "canceled",
                 !.conn = IF @ = "open" THEN "closed" ELSE @]

\* return nil, err / return readCloser, nil
ReturnFromFetch(call, res) == [Deferred(call) EXCEPT !.pc = "done", !.result = res]

\* a panic in the goroutine of Fetch: the deferred calls run, nothing is returned
PanicInFetch(call) == [Deferred(call) EXCEPT !.pc = "panicked"]

Issued(call, op) == [call EXCEPT !.ops = @ \cup {op}]

\* a protocol call made on the client of connection k
IssuedOver(call, op, k) == [Issued(call, op) EXCEPT !.via = @ \cup {k}]

\* lines 239-247: validation, jar, context
ChromeFetch(c, r) ==
    /\ ~crashed
    /\ calls[c].pc = "idle"
    /\ LET valid == ParseRequestURI(TrimSpace(getURL(r.URL)))
       IN
       /\ clientJar' = IF valid /\ jar["Chrome"] # Nil
                       THEN [clientJar EXCEPT !["Chrome"] = jar["Chrome"]]
                       ELSE clientJar
       /\ calls' = [calls EXCEPT ![c] =
            IF ~valid
            THEN [CallIdle EXCEPT !.pc = "done", !.req = r,
                                  !.result = Failure("BadRequest")]
            ELSE [CallIdle EXCEPT !.pc = "discover", !.req = r, !.ctx = "live"]]
    /\ UNCHANGED <<pureVars, selVars, jar, baseVars, cdpClient, browser, crashed>>

\* lines 250-254: devt.Get
DevtGet(c) ==
    /\ ~crashed
    /\ calls[c].pc = "discover"
    /\ \E ok \in BOOLEAN :
         LET call == Issued(calls[c], <<"devtool", "Get">>)
         IN  calls' = [calls EXCEPT ![c] =
                 IF ok THEN [call EXCEPT !.pc = "dial"]
                 ELSE ReturnFromFetch(call, Failure("DiscoveryError"))]
    /\ UNCHANGED <<pureVars, selVars, jarVars, baseVars, cdpClient, browser, crashed>>

\* lines 256-291: rpcc.DialContext, cdp.NewClient, the watcher and the
\* goroutines of runBatch are started
DialContext(c) ==
    /\ ~crashed
    /\ calls[c].pc = "dial"
    /\ \E ok \in BOOLEAN :
         LET call == Issued(calls[c], <<"rpcc", "DialContext">>)
         IN  /\ calls' = [calls EXCEPT ![c] =
                   IF ok
                   THEN [call EXCEPT !.pc = "batch", !.conn = "open",
                                     !.watcher = "waiting",
                                     !.act = [d \in Domains |-> "running"]]
                   ELSE ReturnFromFetch(call, Failure("DialError"))]
             /\ cdpClient' = IF ok THEN c ELSE cdpClient
    /\ UNCHANGED <<pureVars, selVars, jarVars, baseVars, browser, crashed>>

\* lines 268-275: nothing sends on abort, so the watcher leaves on ctx.Done()
WatchAbort(c) ==
    /\ ~crashed
    /\ calls[c].watcher = "waiting"
    /\ calls[c].ctx = "canceled"
    /\ calls' = [calls EXCEPT ![c].watcher = "exited"]
    /\ UNCHANGED <<pureVars, selVars, jarVars, baseVars, cdpClient, browser, crashed>>

\* lines 285-288: one of the four Enable calls, in its own goroutine
Enable(c, d) ==
    /\ ~crashed
    /\ calls[c].pc = "batch"
    /\ calls[c].act[d] = "running"
    /\ \E ok \in BOOLEAN :
         /\ ok => ConnOpen(cdpClient) /\ calls[c].ctx = "live"
         /\ calls' = [calls EXCEPT ![c] =
                [IssuedOver(calls[c], <<d, "enable">>, cdpClient) EXCEPT
                    !.act[d] = IF ok THEN "ok" ELSE "err",
                    !.egErr = IF ok \/ @ # Nil THEN @ ELSE d]]
    /\ UNCHANGED <<pureVars, selVars, jarVars, baseVars, cdpClient, browser, crashed>>

\* eg.Wait() of runBatch: the first error once every goroutine has finished
runBatch_lastOnly(call) ==
    IF call.act["Runtime"] = "err" THEN "ActivationError" ELSE Nil

runBatch(call) == IF call.egErr # Nil THEN "ActivationError" ELSE Nil

\* lines 292-301: navigate is entered (lines 350-353)
EnterNavigate(call) ==
    IF call.req.FormData # <<>> /\ parseFormDataPanics(call.req.FormData)
    THEN PanicInFetch(call)
    ELSE [call EXCEPT !.pc = "nav_enable", !.navCtx = "live", !.page = cdpClient]

\* lines 283-301: runBatch returns
runBatchReturns(c) ==
    /\ ~crashed
    /\ calls[c].pc = "batch"
    /\ \A d \in Domains : calls[c].act[d] \in {"ok", "err"}
    /\ calls' = [calls EXCEPT ![c] =
           IF runBatch(calls[c]) # Nil
           THEN ReturnFromFetch(calls[c], Failure(runBatch(calls[c])))
           ELSE EnterNavigate(calls[c])]
    /\ UNCHANGED <<pureVars, selVars, jarVars, baseVars, cdpClient, browser, crashed>>

\* the 5 seconds of domLoadTimeout pass
NavTimeout(c) ==
    /\ ~crashed
    /\ calls[c].navCtx = "live"
    /\ calls' = [calls EXCEPT ![c].navCtx = "deadline"]
    /\ UNCHANGED <<pureVars, selVars, jarVars, baseVars, cdpClient, browser, crashed>>

CtxErr(call) == IF call.navCtx = "deadline" THEN "DeadlineExceeded" ELSE "Canceled"

\* lines 309-320: what Fetch does next when the navigation is over
AfterNavigation_noScroll(call) == [call EXCEPT !.pc = "getdoc"]

AfterNavigation(call) ==
    IF call.req.InfiniteScroll
    THEN [call EXCEPT !.pc = "scroll_read"]
    ELSE [call EXCEPT !.pc = "getdoc"]

\* navigate returns err (its deferred calls run) and Fetch goes on, lines 294-301
navigateReturns(call, err) ==
    LET back == [call EXCEPT !.navErr = err,
                             !.listener = IF @ = "open" THEN "closed" ELSE @,
                             !.loaded = FALSE,
                             !.navCtx = IF @ = "live" THEN "canceled" ELSE @]
    IN  IF call.req.FormData = <<>> /\ err # Nil
        THEN ReturnFromFetch(back, Failure(err))
        ELSE AfterNavigation(back)

\* a protocol call made with navigate's ctx over connection k can succeed
NavCallCanSucceed(call, k) == call.navCtx = "live" /\ ConnOpen(k)

\* lines 355-359: pageClient.Enable
NavPageEnable(c) ==
    /\ ~crashed
    /\ calls[c].pc = "nav_enable"
    /\ LET call == calls[c]
       IN  \E ok \in BOOLEAN :
             /\ ok => NavCallCanSucceed(call, call.page)
             /\ calls' = [calls EXCEPT ![c] =
                  IF call.navCtx # "live" THEN navigateReturns(call, CtxErr(call))
                  ELSE IF ok
                  THEN [IssuedOver(call, <<"Page", "enable">>, call.page) EXCEPT
                           !.pc = "nav_listen"]
                  ELSE navigateReturns(
                           IssuedOver(call, <<"Page", "enable">>, call.page),
                           "ProtocolError")]
    /\ UNCHANGED <<pureVars, selVars, jarVars, baseVars, cdpClient, browser, crashed>>

\* lines 361-366: the DOMContentEventFired listener is opened
NavListen_skipped(c) ==
    /\ ~crashed
    /\ calls[c].pc = "nav_listen"
    /\ calls' = [calls EXCEPT ![c].pc = "nav_go"]
    /\ UNCHANGED <<pureVars, selVars, jarVars, baseVars, cdpClient, browser, crashed>>

NavListen(c) ==
    /\ ~crashed
    /\ calls[c].pc = "nav_listen"
    /\ LET call == calls[c]
       IN  calls' = [calls EXCEPT ![c] =
             IF call.navCtx # "live" THEN navigateReturns(call, CtxErr(call))
             ELSE IF ConnOpen(call.page)
             THEN [IssuedOver(call, <<"Page", "domContentEventFired">>, call.page) EXCEPT
                      !.pc = "nav_go", !.listener = "open"]
             ELSE navigateReturns(call, "ProtocolError")]
    /\ UNCHANGED <<pureVars, selVars, jarVars, baseVars, cdpClient, browser, crashed>>

\* line 374: for a POST the interception goroutine is started; it runs
\* beside navigate from here on
NavSpawn(c) ==
    /\ ~crashed
    /\ calls[c].pc = "nav_go"
    /\ calls[c].req.FormData # <<>>
    /\ calls[c].icpt = "none"
    /\ calls' = [calls EXCEPT ![c].icpt = "start"]
    /\ UNCHANGED <<pureVars, selVars, jarVars, baseVars, cdpClient, browser, crashed>>

\* lines 369 and 389: pageClient.Navigate
NavGo(c) ==
    /\ ~crashed
    /\ calls[c].pc = "nav_go"
    /\ calls[c].req.FormData = <<>> \/ calls[c].icpt # "none"
    /\ LET call == calls[c]
       IN  \E ok \in BOOLEAN :
             /\ ok => NavCallCanSucceed(call, call.page)
             /\ calls' = [calls EXCEPT ![c] =
                  IF call.navCtx # "live" THEN navigateReturns(call, CtxErr(call))
                  ELSE IF ok
                  THEN [IssuedOver(call, <<"Page", "navigate">>, call.page) EXCEPT
                           !.pc = "nav_recv"]
                  ELSE navigateReturns(
                           IssuedOver(call, <<"Page", "navigate">>, call.page),
                           "ProtocolError")]
             /\ browser' = IF ok /\ call.navCtx = "live"
                           THEN [browser EXCEPT ![call.page].navigated = TRUE]
                           ELSE browser
    /\ UNCHANGED <<pureVars, selVars, jarVars, baseVars, cdpClient, crashed>>

\* line 394: domContentEventFired.Recv() delivers the event
NavRecvEvent(c) ==
    /\ ~crashed
    /\ calls[c].pc = "nav_recv"
    /\ calls[c].loaded
    /\ calls' = [calls EXCEPT ![c] = navigateReturns(calls[c], Nil)]
    /\ UNCHANGED <<pureVars, selVars, jarVars, baseVars, cdpClient, browser, crashed>>

\* line 394: domContentEventFired.Recv() ends with the context or the connection
NavRecvFails(c) ==
    /\ ~crashed
    /\ calls[c].pc = "nav_recv"
    /\ \/ /\ calls[c].navCtx # "live"
          /\ calls' = [calls EXCEPT ![c] = navigateReturns(calls[c], CtxErr(calls[c]))]
       \/ /\ ~ConnOpen(calls[c].page)
          /\ calls' = [calls EXCEPT ![c] = navigateReturns(calls[c], "ProtocolError")]
    /\ UNCHANGED <<pureVars, selVars, jarVars, baseVars, cdpClient, browser, crashed>>

\* the browser fires DOMContentEventFired on connection k; it reaches the
\* listeners that are open on k
DOMContentEventFired(k) ==
    /\ ~crashed
    /\ ConnOpen(k)
    /\ browser[k].navigated
    /\ ~browser[k].domFired
    /\ browser' = [browser EXCEPT ![k].domFired = TRUE]
    /\ calls' = [c \in Calls |->
                    IF calls[c].listener = "open" /\ calls[c].page = k
                    THEN [calls[c] EXCEPT !.loaded = TRUE]
                    ELSE calls[c]]
    /\ UNCHANGED <<pureVars, selVars, jarVars, baseVars, cdpClient, crashed>>

\* the browser pauses a request of the navigation on connection k and emits
\* RequestIntercepted; it reaches the interception listeners open on k.
\* The browser is not the program's: it may emit the event or never do so.
RequestIntercepted(k) ==
    /\ ~crashed
    /\ ConnOpen(k)
    /\ browser[k].navigated
    /\ ~browser[k].intercepted
    /\ browser' = [browser EXCEPT ![k].intercepted = TRUE]
    /\ calls' = [c \in Calls |->
                    IF calls[c].icpt = "recv" /\ calls[c].icptConn = k
                    THEN [calls[c] EXCEPT !.icptEvent = TRUE]
                    ELSE calls[c]]
    /\ UNCHANGED <<pureVars, selVars, jarVars, baseVars, cdpClient, crashed>>

\* line 375: the goroutine opens the RequestIntercepted listener; when that
\* fails cl is nil and cl.Recv() of line 376 panics
IcptListen(c) ==
    /\ ~crashed
    /\ calls[c].icpt = "start"
    /\ \E ok \in BOOLEAN :
         /\ ok => NavCallCanSucceed(calls[c], cdpClient)
         /\ calls' = [calls EXCEPT ![c] =
              IF ok
              THEN [IssuedOver(calls[c], <<"Network", "requestIntercepted">>,
                               cdpClient) EXCEPT
                       !.icpt = "recv", !.icptConn = cdpClient]
              ELSE [calls[c] EXCEPT !.icpt = "panicked"]]
         /\ crashed' = ~ok
    /\ UNCHANGED <<pureVars, selVars, jarVars, baseVars, cdpClient, browser>>

\* lines 376-379: cl.Recv() delivers the intercepted request
IcptRecvEvent(c) ==
    /\ ~crashed
    /\ calls[c].icpt = "recv"
    /\ calls[c].icptEvent
    /\ calls' = [calls EXCEPT ![c].icpt = "continue"]
    /\ UNCHANGED <<pureVars, selVars, jarVars, baseVars, cdpClient, browser, crashed>>

\* lines 376-379: cl.Recv() ends with the context or the connection: panic(err)
IcptRecvFails(c) ==
    /\ ~crashed
    /\ calls[c].icpt = "recv"
    /\ calls[c].navCtx # "live" \/ ~ConnOpen(calls[c].icptConn)
    /\ calls' = [calls EXCEPT ![c].icpt = "panicked"]
    /\ crashed' = TRUE
    /\ UNCHANGED <<pureVars, selVars, jarVars, baseVars, cdpClient, browser>>

\* lines 380-387: the request is continued as a POST; an error panics
IcptContinue(c) ==
    /\ ~crashed
    /\ calls[c].icpt = "continue"
    /\ \E ok \in BOOLEAN :
         /\ ok => NavCallCanSucceed(calls[c], cdpClient)
         /\ calls' = [calls EXCEPT ![c] =
              IF ok
              THEN [IssuedOver(calls[c], <<"Network", "continueInterceptedRequest">>,
                               cdpClient) EXCEPT !.icpt = "exited"]
              ELSE [calls[c] EXCEPT !.icpt = "panicked"]]
         /\ crashed' = ~ok
    /\ UNCHANGED <<pureVars, selVars, jarVars, baseVars, cdpClient, browser>>

\* lines 398-402: runJSFromFile has a value receiver, so it works on the copy
\* of *f made when it is called; ioutil.ReadFile of the scroll script: an
\* error panics
ReadFile(c) ==
    /\ ~crashed
    /\ calls[c].pc = "scroll_read"
    /\ \E ok \in BOOLEAN :
         calls' = [calls EXCEPT ![c] =
             IF ok THEN [calls[c] EXCEPT !.pc = "scroll_compile", !.js = cdpClient]
             ELSE PanicInFetch([calls[c] EXCEPT !.scriptErr = "ReadFile"])]
    /\ UNCHANGED <<pureVars, selVars, jarVars, baseVars, cdpClient, browser, crashed>>

\* lines 404-410: Runtime.CompileScript with context.Background(); an error panics
CompileScript(c) ==
    /\ ~crashed
    /\ calls[c].pc = "scroll_compile"
    /\ \E ok \in BOOLEAN :
         /\ ok => ConnOpen(calls[c].js)
         /\ calls' = [calls EXCEPT ![c] =
              IF ok
              THEN [IssuedOver(calls[c], <<"Runtime", "compileScript">>,
                               calls[c].js) EXCEPT
                       !.pc = "scroll_run"]
              ELSE PanicInFetch([calls[c] EXCEPT !.scriptErr = "CompileScript"])]
    /\ UNCHANGED <<pureVars, selVars, jarVars, baseVars, cdpClient, browser, crashed>>

\* lines 413-417 and 312-315: Runtime.RunScript
RunScript(c) ==
    /\ ~crashed
    /\ calls[c].pc = "scroll_run"
    /\ \E ok \in BOOLEAN :
         /\ ok => ConnOpen(calls[c].js) /\ calls[c].ctx = "live"
         /\ calls' = [calls EXCEPT ![c] =
              IF ok
              THEN [IssuedOver(calls[c], <<"Runtime", "runScript">>, calls[c].js)
                       EXCEPT !.pc = "getdoc"]
              ELSE ReturnFromFetch([calls[c] EXCEPT !.scriptErr = "RunScript"],
                                   Failure("ScriptError"))]
    /\ UNCHANGED <<pureVars, selVars, jarVars, baseVars, cdpClient, browser, crashed>>

\* lines 320-323: DOM.GetDocument
GetDocument(c) ==
    /\ ~crashed
    /\ calls[c].pc = "getdoc"
    /\ \E ok \in BOOLEAN :
         /\ ok => ConnOpen(cdpClient) /\ calls[c].ctx = "live"
         /\ calls' = [calls EXCEPT ![c] =
              IF ok
              THEN [IssuedOver(calls[c], <<"DOM", "getDocument">>, cdpClient)
                       EXCEPT !.pc = "getouter"]
              ELSE ReturnFromFetch(calls[c], Failure("DocumentError"))]
    /\ UNCHANGED <<pureVars, selVars, jarVars, baseVars, cdpClient, browser, crashed>>

\* lines 326-333: DOM.GetOuterHTML and the stream over its result
GetOuterHTML_both(call, ok) ==
    IF ok THEN ReturnFromFetch(call, Success("html"))
    ELSE ReturnFromFetch(call, [stream |-> "html", err |-> "OuterHTMLError"])

GetOuterHTMLReturns(call, ok) ==
    IF ok THEN ReturnFromFetch(call, Success("html"))
    ELSE ReturnFromFetch(call, Failure("OuterHTMLError"))

GetOuterHTML(c) ==
    /\ ~crashed
    /\ calls[c].pc = "getouter"
    /\ \E ok \in BOOLEAN :
         /\ ok => ConnOpen(cdpClient) /\ calls[c].ctx = "live"
         /\ calls' = [calls EXCEPT ![c] =
              GetOuterHTMLReturns(
                  IssuedOver(calls[c], <<"DOM", "getOuterHTML">>, cdpClient), ok)]
    /\ UNCHANGED <<pureVars, selVars, jarVars, baseVars, cdpClient, browser, crashed>>

\* the caller has the result and the goroutines of the call are gone: the
\* call's frame and its connection no longer exist
ChromeReturned(c) ==
    /\ ~crashed
    /\ calls[c].pc = "done"
    /\ calls[c].watcher \in {"none", "exited"}
    /\ calls[c].icpt \in {"none", "exited"}
    /\ calls' = [calls EXCEPT ![c] = CallIdle]
    /\ browser' = [browser EXCEPT ![c] = BrowserIdle]
    /\ UNCHANGED <<pureVars, selVars, jarVars, baseVars, cdpClient, crashed>>

-----------------------------------------------------------------------------
(* getURL and parseFormData applied to every short string *)

NoBody == [state |-> "none", body |-> <<>>]

PureIdle ==
    /\ nurl = <<>> /\ nprev = <<>> /\ ncount = 0
    /\ fdIn = <<>> /\ fdBody = NoBody

FetchersIdle ==
    /\ jar = [k \in Fetchers |-> Nil]
    /\ clientJar = [k \in Fetchers |-> Nil]
    /\ base = BaseIdle
    /\ crashed = FALSE

ChromeIdle ==
    /\ cdpClient = 0
    /\ calls = [c \in Calls |-> CallIdle]
    /\ browser = [k \in Calls |-> BrowserIdle]

SelIdle ==
    /\ proxy = <<>>
    /\ made = <<>>

InitURL ==
    /\ nurl \in StringsUpTo(URLAlphabet, MaxURLLen)
    /\ nprev = <<>> /\ ncount = 0
    /\ fdIn = <<>> /\ fdBody = NoBody
    /\ FetchersIdle /\ ChromeIdle /\ SelIdle

Normalize ==
    /\ ncount < MaxApply
    /\ nprev' = nurl
    /\ nurl' = getURL(nurl)
    /\ ncount' = ncount + 1
    /\ UNCHANGED <<fdIn, fdBody, selVars, jarVars, baseVars, chromeVars, crashed>>

InitForm ==
    /\ fdIn \in StringsUpTo(FormAlphabet, MaxFormLen) \ {<<>>}
    /\ fdBody = NoBody
    /\ nurl = <<>> /\ nprev = <<>> /\ ncount = 0
    /\ FetchersIdle /\ ChromeIdle /\ SelIdle

\* lines 156-157: formData := parseFormData(fd); formData.Encode()
EncodeFormData ==
    /\ fdBody.state = "none"
    /\ fdBody' = IF parseFormDataPanics(fdIn)
                 THEN [state |-> "panic", body |-> <<>>]
                 ELSE [state |-> "sent", body |-> Encode(fdIn)]
    /\ UNCHANGED <<nurl, nprev, ncount, fdIn, selVars, jarVars, baseVars, chromeVars, crashed>>

-----------------------------------------------------------------------------
(* newFetcher under every short PROXY setting *)

MaxProxyLen == 2
MaxMade == 3

\* lines 31-38, and any other string converted to Type
Types == {"Base", "Chrome", "Other"}

Proxies == StringsUpTo(URLAlphabet, MaxProxyLen)

\* what the caller of newFetcher holds: the dynamic type of the Fetcher and
\* the instance its pointer refers to (0: a nil pointer), or that the call
\* panicked and gave no value
Made(t, type, ptr, panicked) ==
    [t |-> t, type |-> type, ptr |-> ptr, panicked |-> panicked]

\* a proxy of length 0 builds a plain client; otherwise url.Parse decides
\* between a client with a proxy transport and the early return nil
ProxyRejected(p) == Len(p) > 0 /\ ~Parse(p)

\* lines 90-100 with newBaseFetcher (105-123) and newChromeFetcher (218-236);
\* fresh is the address of the struct the constructor allocates
newFetcher(t, p, fresh) ==
    IF t \in {"Base", "Chrome"}
    THEN IF ProxyRejected(p)
         THEN Made(t, t, 0, FALSE)
         ELSE Made(t, t, fresh, FALSE)
    ELSE Made(t, "none", 0, TRUE)

InitSelect ==
    /\ proxy \in Proxies
    /\ made = <<>>
    /\ PureIdle /\ FetchersIdle /\ ChromeIdle

CallNewFetcher(t) ==
    /\ Len(made) < MaxMade
    /\ made' = Append(made, newFetcher(t, proxy, Len(made) + 1))
    /\ UNCHANGED <<pureVars, proxy, jarVars, baseVars, chromeVars, crashed>>

NextSelect == \E t \in Types : CallNewFetcher(t)

SpecSelect == InitSelect /\ [][NextSelect]_vars

-----------------------------------------------------------------------------
(* One caller at a time: a Fetch call starts when no other is running *)

Init == PureIdle /\ FetchersIdle /\ ChromeIdle /\ SelIdle

ChromeStep(c) ==
    \/ DevtGet(c) \/ DialContext(c) \/ WatchAbort(c)
    \/ \E d \in Domains : Enable(c, d)
    \/ runBatchReturns(c)
    \/ NavTimeout(c) \/ NavPageEnable(c) \/ NavListen(c)
    \/ NavSpawn(c) \/ NavGo(c)
    \/ NavRecvEvent(c) \/ NavRecvFails(c)
    \/ DOMContentEventFired(c) \/ RequestIntercepted(c)
    \/ IcptListen(c) \/ IcptRecvEvent(c) \/ IcptRecvFails(c) \/ IcptContinue(c)
    \/ ReadFile(c) \/ CompileScript(c) \/ RunScript(c)
    \/ GetDocument(c) \/ GetOuterHTML(c)
    \/ ChromeReturned(c)

BaseStep ==
    \/ BaseDoFails
    \/ \E status \in Statuses : BaseDoResponds(status)
    \/ BaseReturned

Next ==
    \/ \E r \in Requests : Quiet /\ BaseFetch(r)
    \/ \E c \in Calls, r \in Requests : Quiet /\ ChromeFetch(c, r)
    \/ BaseStep
    \/ \E c \in Calls : ChromeStep(c)

Spec == Init /\ [][Next]_vars

\* the scheduler runs a goroutine that can leave its select
SpecLive == Spec /\ \A c \in Calls : WF_vars(WatchAbort(c))

-----------------------------------------------------------------------------
(* Two Fetch calls on one ChromeFetcher that overlap in time: a call starts
   whatever the other is doing, and each call is followed until it returns *)

\* a GET of a valid URL, no form data, no scroll
PlainRequests ==
    {[URL |-> <<"a", ":", "/", "/", "a">>, Method |-> "GET",
      FormData |-> <<>>, InfiniteScroll |-> FALSE]}

\* the steps of ChromeFetcher.Fetch for such a request
PlainStep(c) ==
    \/ DevtGet(c) \/ DialContext(c) \/ WatchAbort(c)
    \/ \E d \in Domains : Enable(c, d)
    \/ runBatchReturns(c)
    \/ NavTimeout(c) \/ NavPageEnable(c) \/ NavListen(c) \/ NavGo(c)
    \/ NavRecvEvent(c) \/ NavRecvFails(c)
    \/ DOMContentEventFired(c)
    \/ GetDocument(c) \/ GetOuterHTML(c)

NextOverlap ==
    \/ \E c \in Calls, r \in PlainRequests : ChromeFetch(c, r)
    \/ \E c \in Calls : PlainStep(c)

SpecOverlap == Init /\ [][NextOverlap]_vars

-----------------------------------------------------------------------------
(* setCookieJar between the Fetch calls of a fetcher *)

\* nil and two jars
Jars == {Nil, "jar1", "jar2"}

\* lines 198-200 and 337-339
setCookieJar(k, j) ==
    /\ Quiet
    /\ jar' = [jar EXCEPT ![k] = j]
    /\ UNCHANGED <<pureVars, selVars, clientJar, baseVars, chromeVars, crashed>>

NextJar ==
    \/ \E k \in Fetchers, j \in Jars : setCookieJar(k, j)
    \/ \E r \in PlainRequests : Quiet /\ BaseFetch(r)
    \/ \E c \in Calls, r \in PlainRequests : Quiet /\ ChromeFetch(c, r)
    \/ BaseStep
    \/ \E c \in Calls : PlainStep(c) \/ ChromeReturned(c)

SpecJar == Init /\ [][NextJar]_vars

SpecURL == InitURL /\ [][Normalize]_vars

SpecForm == InitForm /\ [][EncodeFormData]_vars

-----------------------------------------------------------------------------
(* Properties *)

Navigate == <<"Page", "navigate">>

\* C1: in the browser strategy, with or without form data, a navigation that
\* ends with the deadline of its timeout window makes Fetch return that
\* timeout error; Fetch never goes on to the scroll script or the document.
C1_TimeoutFailsFetch ==
    \A c \in Calls :
        calls[c].navErr = "DeadlineExceeded" =>
            /\ calls[c].pc = "done"
            /\ calls[c].result = Failure("DeadlineExceeded")
            /\ <<"DOM", "getDocument">> \notin calls[c].ops

\* C2: a Fetch call of the browser strategy that has returned after its
\* connection was opened has that connection closed and its context cancelled.
C2_ConnectionClosedOnReturn ==
    \A c \in Calls :
        calls[c].pc = "done" /\ calls[c].conn # "none" =>
            calls[c].conn = "closed" /\ calls[c].ctx = "canceled"

C2_ReturnedAfterTimeout ==
    \E c \in Calls :
        /\ calls[c].pc = "done"
        /\ calls[c].conn = "closed"
        /\ calls[c].result = Failure("DeadlineExceeded")

\* the table of HTTP statuses and outcomes of the Direct strategy
DocumentedOutcome(status) ==
    IF status = 200 THEN [stream |-> "body", err |-> Nil]
    ELSE [stream |-> Nil,
          err |-> CASE status = 400 -> "BadRequest"
                    [] status = 401 -> "Unauthorized"
                    [] status = 403 -> "Forbidden"
                    [] status = 404 -> "NotFound"
                    [] status = 407 -> "ProxyAuthenticationRequired"
                    [] status = 500 -> "InternalServerError"
                    [] status = 502 -> "BadGateway"
                    [] status = 504 -> "GatewayTimeout"
                    [] OTHER -> "UnknownError"]

\* C3: for every response status, BaseFetcher.Fetch returns the documented
\* outcome: the body stream for 200, the error of the table for the listed
\* codes, the unknown error for any other code.
C3_StatusMapping ==
    base.pc = "done" /\ base.status # 0 =>
        base.result = DocumentedOutcome(base.status)

C3_BadGatewayReturned ==
    /\ base.pc = "done"
    /\ base.status = 502
    /\ base.result.err = "BadGateway"

\* C4 as claimed: with form data the outbound request is a POST whose
\* Content-Length is the length of the body sent; without form data it has
\* the Request's own Method and no body.
C4_OutboundAsClaimed ==
    base.pc = "built" =>
        IF base.req.FormData # <<>>
        THEN /\ base.out.method = "POST"
             /\ base.out.hasBody
             /\ base.out.contentLength = Len(base.out.body)
        ELSE /\ base.out.method = base.req.Method
             /\ ~base.out.hasBody

\* C4: with form data the outbound request is a POST whatever the Request's
\* Method, and its Content-Length is the length of the body sent; without
\* form data it has no body and the Request's Method, GET when that is empty.
C4_OutboundRequest ==
    base.pc = "built" =>
        IF base.req.FormData # <<>>
        THEN /\ base.out.method = "POST"
             /\ base.out.hasBody
             /\ base.out.contentLength = Len(base.out.body)
        ELSE /\ base.out.method = (IF base.req.Method = "" THEN "GET"
                                   ELSE base.req.Method)
             /\ ~base.out.hasBody
             /\ base.out.contentLength = -1

C4_PostForcedOverPut ==
    /\ base.pc = "built"
    /\ base.req.Method = "PUT"
    /\ base.req.FormData = <<"a", "=", "b", "=", "a">>
    /\ base.out.method = "POST"
    /\ base.out.contentLength = 3

\* C5: for a URL whose normalized form is no valid absolute request URI, both
\* strategies return a bad-request error, and nothing (request, discovery,
\* dial, protocol call) has happened before it.
C5_InvalidURLIsBadRequest ==
    /\ base.pc # "idle" /\ ~ParseRequestURI(getURL(base.req.URL)) =>
          /\ base.pc = "done"
          /\ base.result = Failure("BadRequest")
          /\ base.out = NoOutbound
    /\ \A c \in Calls :
          calls[c].pc # "idle" /\ ~ParseRequestURI(getURL(calls[c].req.URL)) =>
              /\ calls[c].pc = "done"
              /\ calls[c].result = Failure("BadRequest")
              /\ calls[c].ops = {}

\* C6: when an activation of the browser strategy has returned an error,
\* Fetch returns an error and no stream, and the call never enters navigate
\* nor issues a navigation.
C6_ActivationFailureStopsFetch ==
    \A c \in Calls :
        (\E d \in Domains : calls[c].act[d] = "err") =>
            /\ calls[c].pc \in {"batch", "done"}
            /\ calls[c].navCtx = "none"
            /\ Navigate \notin calls[c].ops
            /\ calls[c].pc = "done" =>
                  calls[c].result.stream = Nil /\ calls[c].result.err # Nil

C6_OnlyRuntimeFailed ==
    \E c \in Calls :
        /\ calls[c].pc = "done"
        /\ calls[c].act["Runtime"] = "err"
        /\ \A d \in Domains \ {"Runtime"} : calls[c].act[d] = "ok"
        /\ calls[c].result = Failure("ActivationError")

\* C7: getURL is idempotent: normalizing a normalized string changes nothing.
C7_getURLIdempotent == ncount = 2 => nurl = nprev

HasOneOf(res) ==
    \/ res.stream # Nil /\ res.err = Nil
    \/ res.stream = Nil /\ res.err # Nil

\* C8: a Fetch call of either strategy that has returned has returned either
\* a stream and no error, or an error and no stream.
C8_StreamXorError ==
    /\ base.pc = "done" => HasOneOf(base.result)
    /\ \A c \in Calls : calls[c].pc = "done" => HasOneOf(calls[c].result)

C8_StreamReturned ==
    \E c \in Calls :
        /\ calls[c].pc = "done"
        /\ <<"DOM", "getOuterHTML">> \in calls[c].ops
        /\ calls[c].result.stream = "html"

\* the pairs of a form string and the key of a pair
Pairs(fd) == Split(fd, "&")
KeyOf(pair) == Split(pair, "=")[1]

\* every pair is key=value with one "=", and nothing needs escaping
WellFormedPlain(fd) ==
    /\ \A i \in 1..Len(Pairs(fd)) : Len(Split(Pairs(fd)[i], "=")) = 2
    /\ \A i \in 1..Len(fd) : fd[i] # "/"

PairsWithKey(pairs, k) == SelectSeq(pairs, LAMBDA p : KeyOf(p) = k)

\* C9 as claimed: for well-formed pairs that need no escaping, the body sent
\* is the pairs in the order of the form data.
C9_BodyInRequestOrder ==
    fdBody.state = "sent" /\ WellFormedPlain(fdIn) => fdBody.body = fdIn

\* C9: for well-formed pairs that need no escaping, the body sent is the same
\* pairs ordered by key, the pairs of one key in the order of the form data.
C9_BodySortedByKey ==
    fdBody.state = "sent" /\ WellFormedPlain(fdIn) =>
        LET in  == Pairs(fdIn)
            out == Pairs(fdBody.body)
        IN  /\ Len(out) = Len(in)
            /\ \A i \in 1..Len(in) :
                  PairsWithKey(out, KeyOf(in[i])) = PairsWithKey(in, KeyOf(in[i]))
            /\ \A i \in 1..Len(out) : \A j \in (i + 1)..Len(out) :
                  ~StrLess(KeyOf(out[j]), KeyOf(out[i]))

C9_PairsReordered ==
    /\ fdIn = <<"b", "=", "&", "a", "=">>
    /\ fdBody = [state |-> "sent", body |-> <<"a", "=", "&", "b", "=">>]

\* C10: navigate issues the navigation only with the DOMContentEventFired
\* listener open, and a signal the browser fires while navigate waits for it
\* is put in that listener.
C10_ListenerBeforeNavigate ==
    [][\A c \in Calls :
          /\ Navigate \notin calls[c].ops /\ Navigate \in calls'[c].ops =>
                calls[c].listener = "open"
          /\ /\ calls[c].pc = "nav_recv" /\ calls'[c].pc = "nav_recv"
             /\ ~browser[calls[c].page].domFired
             /\ browser'[calls[c].page].domFired
             => calls'[c].loaded]_vars

C10_SignalReceived ==
    \E c \in Calls :
        /\ calls[c].pc = "nav_recv"
        /\ browser[calls[c].page].domFired
        /\ calls[c].loaded

\* C11: with form data, navigate issues the navigation only once the
\* goroutine's RequestIntercepted listener is open, so the request the
\* browser pauses for that navigation is put in that listener.
C11_InterceptListenerBeforeNavigate ==
    [][\A c \in Calls :
          /\ /\ calls[c].req.FormData # <<>>
             /\ Navigate \notin calls[c].ops /\ Navigate \in calls'[c].ops
             => calls[c].icpt = "recv"
          /\ /\ calls[c].req.FormData # <<>>
             /\ calls[c].pc = "nav_recv"
             /\ ~browser[calls[c].page].intercepted
             /\ browser'[calls[c].page].intercepted
             => calls'[c].icptEvent]_vars

\* C12: newFetcher gives a Base fetcher for Base and a Chrome fetcher for
\* Chrome, each a newly constructed instance distinct from every earlier
\* one; for any other kind the call panics and gives no fetcher.
C12_FreshFetcherOrPanic ==
    \A i \in 1..Len(made) :
        /\ made[i].t \in {"Base", "Chrome"}
           => /\ ~made[i].panicked
              /\ made[i].type = made[i].t
              /\ made[i].ptr # 0
              /\ \A j \in 1..(i - 1) : made[j].ptr # made[i].ptr
        /\ made[i].t \notin {"Base", "Chrome"}
           => made[i].panicked /\ made[i].type = "none"

\* C13: once one of the four concurrent activation calls has failed, the
\* caller of runBatch is unblocked (it need not wait for the others), and
\* the activations still running are cancelled.
C13_FirstFailureUnblocksAndCancels ==
    \A c \in Calls :
        calls[c].pc = "batch" /\ calls[c].egErr # Nil
        => /\ ENABLED runBatchReturns(c)
           /\ \A d \in Domains :
                 calls[c].act[d] = "running" => calls[c].ctx = "canceled"

\* C14: with infinite scroll, a failure to read the script file, to compile
\* the script or to run it ends ChromeFetcher.Fetch by returning an error
\* (and no stream) to its caller, the connection closed; never otherwise.
C14_ScriptFailureReturnsError ==
    \A c \in Calls :
        calls[c].scriptErr # Nil
        => /\ calls[c].pc = "done"
           /\ calls[c].result.err # Nil /\ calls[c].result.stream = Nil
           /\ calls[c].conn = "closed"

ScriptOps == {<<"Runtime", "compileScript">>, <<"Runtime", "runScript">>}
NavigateOver(call) == call.navCtx \in {"deadline", "canceled"}

\* C16: the scroll script is compiled and run only for a Request with
\* InfiniteScroll, and for every such Request before its document root is
\* requested; it is run after navigate has returned, compiled before it is
\* run; the outer markup is requested only once the document root is there.
C16_ScrollBetweenNavigateAndDocument ==
    \A c \in Calls :
        LET call == calls[c]
            document == <<"DOM", "getDocument">>
        IN  /\ call.ops \cap ScriptOps # {} => call.req.InfiniteScroll
            /\ <<"Runtime", "runScript">> \in call.ops
               => <<"Runtime", "compileScript">> \in call.ops
            /\ call.pc \in {"scroll_read", "scroll_compile", "scroll_run"}
               => /\ call.req.InfiniteScroll /\ NavigateOver(call)
                  /\ document \notin call.ops
            /\ call.pc \in {"getdoc", "getouter"} \/ document \in call.ops
               => /\ NavigateOver(call)
                  /\ call.req.InfiniteScroll => ScriptOps \subseteq call.ops
            /\ call.pc = "getouter" \/ <<"DOM", "getOuterHTML">> \in call.ops
               => document \in call.ops

C16_ScrolledThenFetched ==
    \E c \in Calls :
        /\ calls[c].pc = "done"
        /\ calls[c].req.InfiniteScroll
        /\ ScriptOps \subseteq calls[c].ops
        /\ <<"DOM", "getOuterHTML">> \in calls[c].ops
        /\ calls[c].result.stream = "html"

\* C17: in the direct strategy the outbound request is built for the
\* normalized URL, the string that was validated: a Request whose normalized
\* URL is valid gets a request built, and the URL of that request is the
\* normalized one, with and without form data.
C17_OutboundURLNormalized ==
    /\ base.pc = "built" => base.out.url = getURL(base.req.URL)
    /\ base.pc = "done" /\ ParseRequestURI(getURL(base.req.URL))
       => base.result # Failure("NewRequestError")

\* C18: every protocol operation a ChromeFetcher.Fetch call issues goes over
\* the connection that call opened, also when two calls on one instance
\* overlap: never over the connection of another call, open or closed.
C18_OwnConnectionOnly ==
    \A c \in Calls : calls[c].via \subseteq {c}

\* C19: when a Fetch call issues its request (the direct strategy's outbound
\* request, the browser strategy's discovery request), the jar of the
\* fetcher's http client is the jar last passed to setCookieJar, and none
\* when that was nil.
C19_ClientJarIsLastSet ==
    /\ base.pc = "built" => clientJar["Base"] = jar["Base"]
    /\ \A c \in Calls :
          calls[c].pc = "discover" => clientJar["Chrome"] = jar["Chrome"]

\* C20: the abort watcher a ChromeFetcher.Fetch call started terminates after
\* the call has ended, by a return or by a panic, though nothing is ever sent
\* on abort (unless a goroutine's panic has ended the whole process).
C20_WatcherTerminates ==
    \A c \in Calls :
        (calls[c].pc \in {"done", "panicked"} /\ calls[c].watcher = "waiting")
        ~> (calls[c].watcher = "exited" \/ crashed)

C20_WatcherGoneAfterReturn ==
    \E c \in Calls :
        /\ calls[c].pc = "done"
        /\ calls[c].result.stream = "html"
        /\ calls[c].watcher = "exited"

====
